---- MODULE Spec2Model ----
(***************************************************************************)
(* A model of MontePython: the Sampler base class (sampler.py) and the     *)
(* MetropolisSampler (metropolis_sampler.py).                              *)
(*                                                                         *)
(* Positions are tuples of integers of length dim, log-probabilities are   *)
(* integers, the random number generator is a small congruential generator *)
(* whose whole state is one integer (get_state/set_state read and write    *)
(* it).  run is one atomic action (the caller sees nothing in between).    *)
(* sample is a generator: each next() runs the body up to the next yield.  *)
(* Creating the generator runs no code, so the call and its first next()   *)
(* are one action.  The program is single-threaded with one consumer per   *)
(* sequence: while a generator is suspended its consumer may advance it,   *)
(* drop it or reset the sampler.                                           *)
(***************************************************************************)
EXTENDS Integers, Sequences, FiniteSets, TLC

VARIABLES
    dim,         \* Sampler.dim
    lnprobfn,    \* Sampler.lnprobfn (which callback the sampler was built with)
    cov,         \* MetropolisSampler.cov (a variance; isotropic when dim > 1)
    random,      \* Sampler._random (the generator's state)
    chain,       \* Sampler._chain (sequence of rows)
    lnprob,      \* Sampler._lnprob
    iterations,  \* Sampler.iterations
    accepted,    \* Sampler.accepted
    last_run,    \* Sampler._last_run (None or Some(<<p, lnprob, rstate>>))
    written,     \* history: written[j] iff row j of the chain was assigned by a step
    retained,    \* history: <<p, lnprob, row>> of every retained step since reset
                 \* (row 0: the write failed)
    gen,         \* the live generator returned by sample (None or Some(frame))
    ret,         \* what the last operation gave back to its caller
    base,        \* history: the run(p0, N) chain of resumed runs since a reset
    twin         \* history: a second sampler replaying the calls (None or Some)

vars == <<dim, lnprobfn, cov, random, chain, lnprob, iterations, accepted,
          last_run, written, retained, gen, ret, base, twin>>

----------------------------------------------------------------------------
(* Bounds of the model *)

MaxIter == 2      \* cap on the iterations counter
MaxN == 2         \* largest iteration count of one call
MaxThin == 2      \* largest thinning
MaxChain == 3     \* cap on the chain length

----------------------------------------------------------------------------
(* Optional values: Python's None and a present value *)

None == <<>>
Some(x) == <<x>>

\* "x = e; F(x)": the value of F at e, with e evaluated once
Bind(e, F(_)) == CHOOSE y \in {F(x) : x \in {e}} : TRUE

----------------------------------------------------------------------------
(* The random number generator: np.random.mtrand.RandomState *)

RngMod == 4
RngStates == 0 .. (RngMod - 1)

\* the state transition made by one draw
NextRng(r) == (5 * r + 3) % RngMod

\* the raw output of the draw made in state r: 0, 1 or 2
Raw(r) == r % 3

\* RandomState.set_state: raises on anything that is not a state
SetStateRaises(state) == state = None \/ state[1] \notin RngStates

\* a malformed snapshot
Malformed == Some(-1)

\* RandomState.rand(): a uniform variate in [0, 1), in thousandths
RandMilli(r) == (r % 4) * 250

\* np.sqrt of the variance
Sqrt(c) == CHOOSE s \in 0 .. c : s * s = c

\* RandomState.normal(p, sigma): one draw, the offset is -sigma, 0 or sigma
Normal(p, sigma, r) == [q |-> <<p[1] + sigma * (Raw(r) - 1)>>, random |-> NextRng(r)]

\* RandomState.multivariate_normal(p, cov): one draw per component
MultivariateNormal(p, c, r) ==
    [q |-> <<p[1] + Sqrt(c) * (Raw(r) - 1), p[2] + Sqrt(c) * (Raw(NextRng(r)) - 1)>>,
     random |-> NextRng(NextRng(r))]

\* np.exp(diff) for diff < 0, in thousandths (underflows to 0)
ExpMilli(d) ==
    CASE d = -1 -> 368
      [] d = -2 -> 135
      [] d = -3 -> 50
      [] d = -4 -> 18
      [] d = -5 -> 7
      [] d = -6 -> 2
      [] OTHER -> 0

----------------------------------------------------------------------------
(* The log-probability callback *)

SumSq(x) == IF Len(x) = 1 THEN x[1] * x[1] ELSE x[1] * x[1] + x[2] * x[2]

Callbacks == {"partial", "flat"}

\* the callback raises: "partial" is defined only near the origin
LnProbRaises(fn, x) == fn = "partial" /\ SumSq(x) >= 4

LnProbFn(fn, x) == IF fn = "flat" THEN 0 ELSE -SumSq(x)

\* Sampler.get_lnprob
get_lnprob(p) == [err |-> IF LnProbRaises(lnprobfn, p) THEN "callback" ELSE "",
                  val |-> LnProbFn(lnprobfn, p)]

----------------------------------------------------------------------------
(* The sampler object as a record, for the operators below *)

Self == [chain |-> chain, lnprob |-> lnprob, written |-> written,
         retained |-> retained, iterations |-> iterations,
         accepted |-> accepted, last_run |-> last_run, random |-> random]

Install(s) ==
    /\ chain' = s.chain
    /\ lnprob' = s.lnprob
    /\ written' = s.written
    /\ retained' = s.retained
    /\ iterations' = s.iterations
    /\ accepted' = s.accepted
    /\ last_run' = s.last_run
    /\ random' = s.random

Zeros(d) == [k \in 1 .. d |-> 0]

Repeat(x, n) == [k \in 1 .. n |-> x]

reset_Reseeds(s) ==
    [s EXCEPT !.chain = <<>>, !.lnprob = <<>>, !.written = <<>>,
              !.retained = <<>>, !.iterations = 0, !.accepted = 0,
              !.last_run = None, !.random = 0]

reset_KeepsCheckpoint(s) ==
    [s EXCEPT !.chain = <<>>, !.lnprob = <<>>, !.written = <<>>,
              !.retained = <<>>, !.iterations = 0, !.accepted = 0]

\* Sampler.reset
reset(s) == [s EXCEPT !.chain = <<>>, !.lnprob = <<>>, !.written = <<>>,
                      !.retained = <<>>, !.iterations = 0, !.accepted = 0,
                      !.last_run = None]

set_random_state_Ignores(s, state) == s

set_random_state_Reseeds(s, state) ==
    IF SetStateRaises(state) THEN [s EXCEPT !.random = 0]
    ELSE [s EXCEPT !.random = state[1]]

\* Sampler.random_state setter: fails silently
set_random_state(s, state) ==
    IF SetStateRaises(state) THEN s ELSE [s EXCEPT !.random = state[1]]

----------------------------------------------------------------------------
(* MetropolisSampler.sample *)

\* the generator's frame: its arguments and locals
Frame(p, lnprob0, rstate, thin, store_chain, N) ==
    [p |-> p, lnprob0 |-> lnprob0, rstate |-> rstate, thin |-> thin,
     store_chain |-> store_chain, N |-> N,
     lnprob |-> 0, i0 |-> 0, i |-> 0, started |-> FALSE]

PreExtend_ChainOnly(s, g) ==
    IF g.store_chain
    THEN [s EXCEPT !.chain = s.chain \o Repeat(Zeros(dim), g.N \div g.thin),
                   !.written = s.written \o Repeat(FALSE, g.N \div g.thin)]
    ELSE s

\* the rows sample adds before iterating
PreExtend(s, g) ==
    IF g.store_chain
    THEN [s EXCEPT !.chain = s.chain \o Repeat(Zeros(dim), g.N \div g.thin),
                   !.lnprob = s.lnprob \o Repeat(0, g.N \div g.thin),
                   !.written = s.written \o Repeat(FALSE, g.N \div g.thin)]
    ELSE s

FirstIndex_Zero(s) == 0

\* the first row index of the call
FirstIndex(s) == s.iterations

\* the body of sample before the loop
Prologue(s, g) ==
    Bind(set_random_state(s, g.rstate), LAMBDA s1 :
    Bind(IF g.lnprob0 = None THEN get_lnprob(g.p)
         ELSE [err |-> "", val |-> g.lnprob0[1]], LAMBDA lp :
    IF lp.err # "" THEN [s |-> s1, g |-> g, err |-> lp.err]
    ELSE Bind(PreExtend(s1, g), LAMBDA s2 :
         [s |-> s2,
          g |-> [g EXCEPT !.lnprob = lp.val, !.i0 = FirstIndex(s2),
                          !.started = TRUE, !.lnprob0 = None, !.rstate = None],
          err |-> ""])))

\* the proposal
Propose(p, r) ==
    IF dim = 1 THEN Normal(p, Sqrt(cov), r) ELSE MultivariateNormal(p, cov, r)

Accept_IgnoresUniform(diff, r) ==
    LET d2 == IF diff < 0 THEN ExpMilli(diff) ELSE diff
    IN  [accept |-> d2 > 0, random |-> IF diff < 0 THEN NextRng(r) ELSE r]

Accept_AlwaysDraws(diff, r) ==
    LET d2 == IF diff < 0 THEN ExpMilli(diff) - RandMilli(r) ELSE diff
    IN  [accept |-> d2 > 0, random |-> NextRng(r)]

\* the acceptance test on diff = newlnprob - lnprob, with the generator in state r
Accept(diff, r) ==
    LET d2 == IF diff < 0 THEN ExpMilli(diff) - RandMilli(r) ELSE diff
    IN  [accept |-> d2 > 0, random |-> IF diff < 0 THEN NextRng(r) ELSE r]

\* the step with index i stores a row
Retains(g) == g.store_chain /\ g.i % g.thin = 0

CountIteration_Forgotten(s) == s

\* "self.iterations += 1"
CountIteration(s) == [s EXCEPT !.iterations = s.iterations + 1]

\* "self.accepted += 1"
CountAccepted(s) == [s EXCEPT !.accepted = s.accepted + 1]

RowIndex_CallStart(g) == g.i0

\* the row a retained step writes
RowIndex(g) == g.i0 + (g.i \div g.thin)

\* the end of the loop body: the row of a retained step is written
Store(s, g, g2) ==
    IF ~Retains(g) THEN [s |-> s, g |-> g2, err |-> ""]
    ELSE Bind([s EXCEPT !.retained =
                  Append(s.retained,
                         <<g2.p, g2.lnprob,
                           IF RowIndex(g) + 1 > Len(s.chain) THEN 0
                           ELSE RowIndex(g) + 1>>)],
              LAMBDA s3 :
         IF RowIndex(g) + 1 > Len(s3.chain)
         THEN [s |-> s3, g |-> g2, err |-> "IndexError"]
         ELSE [s |-> [s3 EXCEPT !.chain[RowIndex(g) + 1] = g2.p,
                                !.lnprob[RowIndex(g) + 1] = g2.lnprob,
                                !.written[RowIndex(g) + 1] = TRUE],
               g |-> g2, err |-> ""])

\* one pass through the loop body, up to the yield
Step(s, g) ==
    Bind(Propose(g.p, s.random), LAMBDA pr :
    Bind([CountIteration(s) EXCEPT !.random = pr.random], LAMBDA s1 :
    Bind(get_lnprob(pr.q), LAMBDA nl :
    IF nl.err # "" THEN [s |-> s1, g |-> g, err |-> nl.err]
    ELSE Bind(Accept(nl.val - g.lnprob, s1.random), LAMBDA ac :
         IF ac.accept
         THEN Store([CountAccepted(s1) EXCEPT !.random = ac.random], g,
                    [g EXCEPT !.p = pr.q, !.lnprob = nl.val, !.i = g.i + 1])
         ELSE Store([s1 EXCEPT !.random = ac.random], g,
                    [g EXCEPT !.i = g.i + 1])))))

\* the value yielded after a step
Yielded(s, g) == <<g.p, g.lnprob, s.random>>

----------------------------------------------------------------------------
(* Sampler.run *)

RECURSIVE Loop_CheckpointsEachStep(_, _)
Loop_CheckpointsEachStep(s, g) ==
    IF g.i >= g.N THEN [s |-> s, g |-> g, err |-> ""]
    ELSE Bind(Step([s EXCEPT !.last_run = Some(Yielded(s, g))], g), LAMBDA r :
              IF r.err # "" THEN r ELSE Loop_CheckpointsEachStep(r.s, r.g))

RECURSIVE Loop(_, _)
\* "for results in self.sample(...): pass"
Loop(s, g) ==
    IF g.i >= g.N THEN [s |-> s, g |-> g, err |-> ""]
    ELSE Bind(Step(s, g), LAMBDA r :
              IF r.err # "" THEN r ELSE Loop(r.s, r.g))

Checkpoint_KeepsFirst(s, g) ==
    IF s.last_run = None THEN Some(Yielded(s, g)) ELSE s.last_run

\* the checkpoint run stores
Checkpoint(s, g) == Some(Yielded(s, g))

StartOf_CheckpointWins(s, p0, lnprob0, rstate0) ==
    IF s.last_run = None
    THEN IF p0 # None
         THEN [err |-> "", p |-> p0[1], lnprob0 |-> lnprob0, rstate |-> rstate0]
         ELSE [err |-> "ValueError", p |-> Zeros(dim), lnprob0 |-> lnprob0,
               rstate |-> rstate0]
    ELSE [err |-> "",
          p |-> IF p0 # None THEN p0[1] ELSE s.last_run[1][1],
          lnprob0 |-> Some(s.last_run[1][2]),
          rstate |-> Some(s.last_run[1][3])]

StartOf_DefaultsToOrigin(s, p0, lnprob0, rstate0) ==
    IF p0 # None
    THEN [err |-> "", p |-> p0[1], lnprob0 |-> lnprob0, rstate |-> rstate0]
    ELSE IF s.last_run = None
    THEN [err |-> "", p |-> Zeros(dim), lnprob0 |-> lnprob0, rstate |-> rstate0]
    ELSE [err |-> "",
          p |-> s.last_run[1][1],
          lnprob0 |-> IF lnprob0 = None THEN Some(s.last_run[1][2]) ELSE lnprob0,
          rstate |-> IF rstate0 = None THEN Some(s.last_run[1][3]) ELSE rstate0]

\* the start state run passes to sample: the caller's, or the checkpoint's for
\* what the caller omitted when the position is omitted
StartOf(s, p0, lnprob0, rstate0) ==
    IF p0 # None
    THEN [err |-> "", p |-> p0[1], lnprob0 |-> lnprob0, rstate |-> rstate0]
    ELSE IF s.last_run = None
    THEN [err |-> "ValueError", p |-> Zeros(dim), lnprob0 |-> lnprob0,
          rstate |-> rstate0]
    ELSE [err |-> "",
          p |-> s.last_run[1][1],
          lnprob0 |-> IF lnprob0 = None THEN Some(s.last_run[1][2]) ELSE lnprob0,
          rstate |-> IF rstate0 = None THEN Some(s.last_run[1][3]) ELSE rstate0]

run(s, p0, N, lnprob0, rstate0, thin, store_chain) ==
    Bind(StartOf(s, p0, lnprob0, rstate0), LAMBDA st :
    IF st.err # "" THEN [s |-> s, err |-> st.err, val |-> None]
    ELSE Bind(Prologue(s, Frame(st.p, st.lnprob0, st.rstate, thin,
                                store_chain, N)), LAMBDA pr :
    IF pr.err # "" THEN [s |-> pr.s, err |-> pr.err, val |-> None]
    ELSE Bind(Loop(pr.s, pr.g), LAMBDA lo :
    IF lo.err # "" THEN [s |-> lo.s, err |-> lo.err, val |-> None]
    ELSE IF N = 0 THEN [s |-> lo.s, err |-> "UnboundLocalError", val |-> None]
    ELSE [s |-> [lo.s EXCEPT !.last_run = Checkpoint(lo.s, lo.g)],
          err |-> "", val |-> Some(Yielded(lo.s, lo.g))])))

----------------------------------------------------------------------------
(* The inputs of the calls *)

StartPositions == IF dim = 1 THEN {<<0>>, <<1>>} ELSE {<<0, 0>>, <<1, 0>>}
StartArgs == {None} \cup {Some(p) : p \in StartPositions}
LnProbArgs == {None, Some(-1)}
RStateArgs == {None, Malformed, Some(0)}
Thins == 1 .. MaxThin
Counts == 0 .. MaxN

\* the option settings of a call, <<lnprob0, rstate0, thin, store_chain>>: every
\* thinning and storage flag with the optional start values omitted, and each
\* optional start value alone with the default thinning and storage
Options ==
    {<<None, None, thin, store_chain>> : thin \in Thins, store_chain \in BOOLEAN}
    \cup {<<lnprob0, None, 1, TRUE>> : lnprob0 \in LnProbArgs}
    \cup {<<None, rstate0, 1, TRUE>> : rstate0 \in RStateArgs}

\* the option settings of the direct sample calls
SampleOptions == {o \in Options : o[1] = None}

\* the outcome of an operation: the exception raised ("" for none), the value
\* returned or yielded, and for a run that returned the count it was given
Ret(op, err, val, N) == [op |-> op, err |-> err, val |-> val, N |-> N]

----------------------------------------------------------------------------
(* The state machine *)

\* the problems the sampler is built for, <<dim, lnprobfn, cov>>
Problems == {<<1, "partial", 1>>}

Init ==
    /\ \E pb \in Problems : dim = pb[1] /\ lnprobfn = pb[2] /\ cov = pb[3]
    /\ random \in RngStates
    /\ chain = <<>>
    /\ lnprob = <<>>
    /\ written = <<>>
    /\ retained = <<>>
    /\ iterations = 0
    /\ accepted = 0
    /\ last_run = None
    /\ gen = None
    /\ ret = Ret("init", "", None, 0)
    /\ base = None
    /\ twin = None

Problem == <<dim, lnprobfn, cov>>

IsFresh == chain = <<>> /\ iterations = 0 /\ accepted = 0 /\ last_run = None

\* the history of resumed runs: a run(p0, N) with defaults on a reset sampler
\* starts it, a run(None, N) with defaults that completes extends it, every
\* other operation ends it
NextBase(p0, N, lnprob0, rstate0, thin, store_chain, err) ==
    IF err # "" \/ lnprob0 # None \/ rstate0 # None \/ thin # 1 \/ ~store_chain
    THEN None
    ELSE IF p0 # None
         THEN IF IsFresh
              THEN Some([random |-> random, p0 |-> p0, N |-> N, calls |-> 1])
              ELSE None
         ELSE IF base = None THEN None
              ELSE Some([base[1] EXCEPT !.N = @ + N, !.calls = @ + 1])

\* next() on the generator of a sampler s whose frame is g, as a function: what
\* Advance does to this sampler
GenStep(s, g) ==
    Bind(IF g.started THEN [s |-> s, g |-> g, err |-> ""] ELSE Prologue(s, g),
         LAMBDA st :
    IF st.err # ""
    THEN [s |-> st.s, gen |-> None, err |-> st.err, val |-> None]
    ELSE IF st.g.i >= st.g.N
    THEN [s |-> st.s, gen |-> None, err |-> "StopIteration", val |-> None]
    ELSE Bind(Step(st.s, st.g), LAMBDA r :
         IF r.err # ""
         THEN [s |-> r.s, gen |-> None, err |-> r.err, val |-> None]
         ELSE [s |-> r.s, gen |-> Some(r.g), err |-> "",
               val |-> Some(Yielded(r.s, r.g))]))

\* the sampler as reset leaves it, with the generator in state r
FreshWith(r) == [reset(Self) EXCEPT !.random = r]

\* a call starts a replay: it is made on a reset sampler with a valid snapshot
StartsReplay(rstate) == IsFresh /\ ~SetStateRaises(rstate)

\* the second sampler after the same run call, whatever its own RNG state was
TwinRuns(p0, N, lnprob0, rstate0, thin, store_chain) ==
    {Bind(run(FreshWith(r2), p0, N, lnprob0, rstate0, thin, store_chain),
          LAMBDA r : Some([s |-> r.s, gen |-> None, err |-> r.err,
                           val |-> r.val])) : r2 \in RngStates}

\* the second sampler after the same sample call and first next()
TwinSamples(g) == {Some(GenStep(FreshWith(r2), g)) : r2 \in RngStates}

Reset ==
    /\ Install(reset(Self))
    /\ ret' = Ret("reset", "", None, 0)
    /\ base' = None
    /\ twin' = None
    /\ UNCHANGED <<Problem, gen>>

SetRandomState(state) ==
    /\ gen = None
    /\ Install(set_random_state(Self, state))
    /\ ret' = Ret("set_random_state", "", None, 0)
    /\ base' = None
    /\ twin' = None
    /\ UNCHANGED <<Problem, gen>>

Run(p0, N, lnprob0, rstate0, thin, store_chain) ==
    /\ gen = None
    /\ iterations + N <= MaxIter
    /\ Len(chain) + (N \div thin) <= MaxChain
    /\ \E r \in {run(Self, p0, N, lnprob0, rstate0, thin, store_chain)} :
           /\ Install(r.s)
           /\ ret' = Ret("run", r.err, r.val, IF r.err = "" THEN N ELSE 0)
           /\ base' = NextBase(p0, N, lnprob0, rstate0, thin, store_chain, r.err)
    /\ twin' \in IF p0 # None /\ StartsReplay(rstate0)
                 THEN TwinRuns(p0, N, lnprob0, rstate0, thin, store_chain)
                 ELSE {None}
    /\ UNCHANGED <<Problem, gen>>

\* next() on the generator whose frame is g: the body runs to the next yield,
\* to its end or to an exception
Advance(op, g) ==
    \E st \in {IF g.started THEN [s |-> Self, g |-> g, err |-> ""]
               ELSE Prologue(Self, g)} :
        IF st.err # ""
        THEN /\ Install(st.s)
             /\ gen' = None
             /\ ret' = Ret(op, st.err, None, 0)
        ELSE IF st.g.i >= st.g.N
        THEN /\ Install(st.s)
             /\ gen' = None
             /\ ret' = Ret(op, "StopIteration", None, 0)
        ELSE /\ iterations < MaxIter
             /\ \E r \in {Step(st.s, st.g)} :
                   /\ Install(r.s)
                   /\ gen' = IF r.err # "" THEN None ELSE Some(r.g)
                   /\ ret' = Ret(op, r.err,
                                 IF r.err # "" THEN None
                                 ELSE Some(Yielded(r.s, r.g)), 0)

\* sample(...) and the first next() on the generator it returns
Sample(p, N, lnprob0, rstate, thin, store_chain) ==
    /\ gen = None
    /\ Len(chain) + (N \div thin) <= MaxChain
    /\ Advance("sample", Frame(p, lnprob0, rstate, thin, store_chain, N))
    /\ base' = None
    /\ twin' \in IF StartsReplay(rstate)
                 THEN TwinSamples(Frame(p, lnprob0, rstate, thin, store_chain, N))
                 ELSE {None}
    /\ UNCHANGED Problem

\* a later next() on the suspended generator
GenNext ==
    /\ gen # None
    /\ Advance("next", gen[1])
    /\ base' = None
    /\ twin' = IF twin = None \/ twin[1].gen = None THEN None
               ELSE Some(GenStep(twin[1].s, twin[1].gen[1]))
    /\ UNCHANGED Problem

\* the consumer drops the suspended generator
Abandon ==
    /\ gen # None
    /\ gen' = None
    /\ ret' = Ret("abandon", "", None, 0)
    /\ base' = None
    /\ twin' = None
    /\ UNCHANGED <<Problem, chain, lnprob, written, retained, iterations,
                   accepted, last_run, random>>

Next ==
    \/ Reset
    \/ \E state \in RStateArgs : SetRandomState(state)
    \/ \E p0 \in StartArgs, N \in Counts, o \in Options :
          Run(p0, N, o[1], o[2], o[3], o[4])
    \/ \E p \in StartPositions, N \in Counts, o \in SampleOptions :
          Sample(p, N, o[1], o[2], o[3], o[4])
    \/ GenNext
    \/ Abandon

Spec == Init /\ [][Next]_vars

\* the sampler driven by run calls only (with resets and RNG restores)
NextRuns ==
    \/ Reset
    \/ \E state \in RStateArgs : SetRandomState(state)
    \/ \E p0 \in StartArgs, N \in Counts, o \in Options :
          Run(p0, N, o[1], o[2], o[3], o[4])

SpecRuns == Init /\ [][NextRuns]_vars

----------------------------------------------------------------------------
(* Properties *)

\* the step the suspended generator takes on its next next()
Candidate == Propose(gen[1].p, random).q
CandidateLnProb == get_lnprob(Candidate)

\* C1: in every step, if the candidate's log-density is greater than or equal
\* to the current one (delta >= 0, delta = 0 included), the step accepts: the
\* current position and log-probability become the candidate's and accepted
\* increases by 1.
C1_NotWorseIsAccepted ==
    [][(/\ gen # None
        /\ ret'.op = "next"
        /\ ret'.err = ""
        /\ CandidateLnProb.val >= gen[1].lnprob)
       => (/\ accepted' = accepted + 1
           /\ gen'[1].p = Candidate
           /\ gen'[1].lnprob = CandidateLnProb.val)]_vars

\* the chain and the log-probability sequence hold exactly the retained steps,
\* in execution order
ChainIsRetained ==
    /\ Len(chain) = Len(retained)
    /\ Len(lnprob) = Len(retained)
    /\ \A j \in 1 .. Len(retained) :
          chain[j] = retained[j][1] /\ lnprob[j] = retained[j][2]

\* the errors that are the caller's or the callback's doing
CallerErrors == {"callback", "ValueError", "UnboundLocalError"}

\* C2: a run of N >= 1 steps with thinning k >= 1 and store_chain true on a
\* freshly reset sampler completes and stores exactly floor(N/k) rows, row j
\* holding the position and log-probability after the step with index j*k.
C2_FreshRunStoresFloorRows ==
    [][(IsFresh /\ ret'.op = "run" /\ ret'.err # "callback")
       => \A p \in StartPositions, N \in 1 .. MaxN, k \in Thins :
          Run(Some(p), N, None, None, k, TRUE)
          => (/\ ret'.err = ""
              /\ Len(chain') = N \div k
              /\ Len(lnprob') = N \div k
              /\ \A j \in 1 .. (N \div k) :
                    /\ chain'[j] = retained'[j][1]
                    /\ lnprob'[j] = retained'[j][2])]_vars

\* the single run(p0, N1 + ... ) from the state the resumed runs started in
SingleRun == run(FreshWith(base[1].random), base[1].p0, base[1].N, None, None,
                 1, TRUE)

\* C3: run(p0, N1) followed by run(None, N2) (default thinning, store_chain
\* true) ends with the same returned triple, chain, log-probability sequence,
\* counters, checkpoint and RNG state as a single run(p0, N1 + N2) from the
\* same RNG state.
C3_ResumedRunsEqualSingleRun ==
    (base # None /\ base[1].calls >= 2)
    => (/\ SingleRun.err = ""
        /\ ret.val = SingleRun.val
        /\ chain = SingleRun.s.chain
        /\ lnprob = SingleRun.s.lnprob
        /\ iterations = SingleRun.s.iterations
        /\ accepted = SingleRun.s.accepted
        /\ last_run = SingleRun.s.last_run
        /\ random = SingleRun.s.random)

C3_Witness ==
    /\ base # None
    /\ base[1].calls >= 2
    /\ accepted >= 1
    /\ Len(chain) = base[1].N

\* C4: after any sequence of run calls since the last reset, each with its own
\* thinning and store_chain flag, every call has completed and the chain holds
\* exactly one row per retained step, in execution order.
C4_RunsKeepChainOfRetained ==
    [][(ChainIsRetained /\ ret'.op = "run" /\ ret'.err \notin CallerErrors)
       => (ret'.err = "" /\ ChainIsRetained')]_vars

\* C5: the chain and the log-probability sequence have the same length in
\* every reachable state.
C5_SameLength == Len(chain) = Len(lnprob)

C5_Witness ==
    /\ ret.err = "IndexError"
    /\ Len(chain) >= 1
    /\ gen = None

\* C6: a run of N steps that returns increases iterations by exactly N; a
\* sample sequence ends after exactly N steps, each increasing iterations by
\* exactly 1; iterations never decreases except by reset; and
\* 0 <= accepted <= iterations in every state.
C6_Counting ==
    /\ [](0 <= accepted /\ accepted <= iterations)
    /\ [][/\ (ret'.op = "run" /\ ret'.err = "")
             => iterations' = iterations + ret'.N
          /\ (ret'.op \in {"sample", "next"} /\ ret'.err = "")
             => (iterations' = iterations + 1 /\ gen' # None)
          /\ (ret'.op = "next" /\ ret'.err = "")
             => gen'[1].i = gen[1].i + 1
          /\ (ret'.op = "next" /\ ret'.err = "StopIteration")
             => (iterations' = iterations /\ gen[1].i = gen[1].N)
          /\ (ret'.op # "reset") => iterations' >= iterations]_vars

C6_Witness ==
    /\ ret.op = "run"
    /\ ret.err = ""
    /\ ret.N = 2
    /\ iterations = 2
    /\ accepted = 1

\* the number of rows a call adds to the chain
CallRows(g) == IF g.store_chain THEN g.N \div g.thin ELSE 0

\* C7: if the consumer abandons a sample sequence at a yield point, every row
\* of the chain is a state the sampler retained at a completed step.  The
\* rows of the abandoned call are the last floor(N/k) of the chain.
C7_AbandonLeavesRetainedRows ==
    [][(/\ gen # None
        /\ ret'.op = "abandon"
        /\ gen[1].i < gen[1].N
        /\ \A j \in 1 .. (Len(chain) - CallRows(gen[1])) : written[j])
       => (\A j \in 1 .. Len(chain') : written'[j])]_vars

\* C8: run with the start position omitted and no checkpoint fails with an
\* error and leaves the chain, the log-probability sequence, the counters,
\* the RNG state and the checkpoint unchanged, executing no step; and there
\* is no checkpoint until a run has returned.
C8_RunWithoutCheckpointFails ==
    [][/\ (last_run = None /\ ret'.op = "run")
          => \A N \in Counts, o \in Options :
                Run(None, N, o[1], o[2], o[3], o[4])
                => (/\ ret'.err = "ValueError"
                    /\ UNCHANGED <<chain, lnprob, iterations, accepted, random,
                                   last_run, retained>>)
       /\ (last_run = None /\ last_run' # None)
          => (ret'.op = "run" /\ ret'.err = "")]_vars

C8_Witness ==
    /\ ret.op = "run"
    /\ ret.err = "ValueError"
    /\ iterations >= 1
    /\ Len(chain) >= 1

\* C9: reset, after any sequence of operations, succeeds and leaves chain
\* length 0, log-probability length 0, iterations = 0, accepted = 0 and no
\* checkpoint.
C9_ResetClears ==
    /\ ENABLED Reset
    /\ ret.op = "reset"
       => (/\ ret.err = ""
           /\ Len(chain) = 0
           /\ Len(lnprob) = 0
           /\ iterations = 0
           /\ accepted = 0
           /\ last_run = None)

\* a reset while a sequence that has stored rows is suspended
C9_Witness ==
    /\ ret.op = "reset"
    /\ gen # None
    /\ gen[1].store_chain
    /\ gen[1].i >= 1

\* C10: setting random_state, directly or through the rstate argument of run
\* or sample, to an absent or malformed value raises nothing and leaves the
\* RNG state as it was (the call draws from the current stream); setting it to
\* a valid snapshot makes the RNG state that snapshot (the call draws from it).
C10_FailSoftRestore ==
    [][/\ (ret'.op = "set_random_state")
          => \A state \in RStateArgs :
                SetRandomState(state)
                => (/\ ret'.err = ""
                    /\ random' = IF state \in {None, Malformed} THEN random
                                 ELSE state[1])
       /\ (ret'.op = "run" /\ ret'.err = "")
          => \A p \in StartPositions, state \in RStateArgs :
                (/\ Len(chain') = Len(chain) + ret'.N
                 /\ Run(Some(p), ret'.N, None, state, 1, TRUE))
                => \E same \in {run([Self EXCEPT !.random =
                                         IF state \in {None, Malformed}
                                         THEN random ELSE state[1]],
                                    Some(p), ret'.N, None, None, 1, TRUE)} :
                      /\ same.err = ""
                      /\ random' = same.s.random
                      /\ ret'.val = same.val
                      /\ chain' = same.s.chain
       /\ (ret'.op = "sample" /\ ret'.err = "")
          => \A p \in StartPositions, state \in RStateArgs :
                (/\ gen'[1].thin = 1
                 /\ gen'[1].store_chain
                 /\ Sample(p, gen'[1].N, None, state, 1, TRUE))
                => \E from \in {Prologue([Self EXCEPT !.random =
                                             IF state \in {None, Malformed}
                                             THEN random ELSE state[1]],
                                         Frame(p, None, None, 1, TRUE,
                                               gen'[1].N))} :
                   \E same \in {Step(from.s, from.g)} :
                      /\ same.err = ""
                      /\ random' = same.s.random
                      /\ ret'.val = Some(Yielded(same.s, same.g))
                      /\ chain' = same.s.chain]_vars

\* the only valid snapshot passed in is state 0, so the RNG was left alone here
C10_Witness ==
    /\ ret.op = "set_random_state"
    /\ random # 0
    /\ iterations >= 1

\* C11: two independent samplers over the same problem and callback, given the
\* same RNG-state snapshot, starting position, log-probability and options and
\* stepped the same number of times, yield identical triples at every step
\* and end with identical chains, log-probability sequences and counters.
C11_ReplayIsIdentical ==
    twin # None
    => (/\ twin[1].err = ret.err
        /\ twin[1].val = ret.val
        /\ twin[1].gen = gen
        /\ twin[1].s.chain = chain
        /\ twin[1].s.lnprob = lnprob
        /\ twin[1].s.iterations = iterations
        /\ twin[1].s.accepted = accepted
        /\ twin[1].s.random = random)

\* both samplers have stepped twice and moved
C11_Witness ==
    /\ twin # None
    /\ ret.op = "next"
    /\ ret.err = ""
    /\ iterations = 2
    /\ accepted >= 1

\* C12: after every run call that completes, the checkpoint is exactly the
\* triple the call returned (final position, final log-probability, RNG state
\* after the last step), whatever checkpoint an earlier run stored, and the
\* checkpointed RNG state is the sampler's live RNG state.
C12_CheckpointIsReturned ==
    (ret.op = "run" /\ ret.err = "")
    => (/\ last_run # None
        /\ last_run = ret.val
        /\ last_run[1][3] = random
        /\ base # None
           => (/\ chain[Len(chain)] = last_run[1][1]
               /\ lnprob[Len(lnprob)] = last_run[1][2]))

\* a second run has replaced the checkpoint of the first
C12_Witness ==
    /\ ret.op = "run"
    /\ ret.err = ""
    /\ base # None
    /\ base[1].calls >= 2
    /\ last_run[1][1] # base[1].p0[1]

RECURSIVE Draws(_, _)
\* the generator's state after n draws from state r
Draws(r, n) == IF n = 0 THEN r ELSE Draws(NextRng(r), n - 1)

\* 1 if the step the frame g takes from RNG state r has delta < 0, else 0
NegativeDelta(g, r) ==
    IF get_lnprob(Propose(g.p, r).q).val < g.lnprob THEN 1 ELSE 0

RECURSIVE NegativeSteps(_, _)
\* the number of the remaining steps of the call that have delta < 0
NegativeSteps(s, g) ==
    IF g.i >= g.N THEN 0
    ELSE Bind(Step(s, g), LAMBDA r :
              NegativeDelta(g, s.random)
              + (IF r.err # "" THEN 0 ELSE NegativeSteps(r.s, r.g)))

\* C13: every step consumes exactly one proposal draw, followed by exactly one
\* uniform draw if and only if delta < 0; sample before its loop, run, reset
\* and the end of a sequence draw nothing else, so N steps consume N draws
\* plus one for each step with delta < 0.
C13_DrawsPerStep ==
    [][/\ (gen # None /\ ret'.op = "next" /\ ret'.err = "")
          => (/\ random' = Draws(random, 1 + NegativeDelta(gen[1], random))
              /\ gen'[1].p \in {gen[1].p, Candidate})
       /\ (ret'.op = "next" /\ ret'.err = "StopIteration") => random' = random
       /\ (ret'.op = "reset") => random' = random
       /\ (ret'.op = "sample" /\ ret'.err = "")
          => \A p \in StartPositions :
                Sample(p, gen'[1].N, None, None, gen'[1].thin,
                       gen'[1].store_chain)
                => \E st \in {Prologue(Self, Frame(p, None, None,
                                  gen'[1].thin, gen'[1].store_chain,
                                  gen'[1].N))} :
                      /\ st.s.random = random
                      /\ random' = Draws(random,
                                         1 + NegativeDelta(st.g, random))
       /\ (ret'.op = "run" /\ ret'.err = "")
          => \A p \in StartPositions, thin \in Thins, store_chain \in BOOLEAN :
                (/\ Len(chain') = Len(chain)
                                  + (IF store_chain THEN ret'.N \div thin ELSE 0)
                 /\ Run(Some(p), ret'.N, None, None, thin, store_chain))
                => \E st \in {Prologue(Self, Frame(p, None, None, thin,
                                  store_chain, ret'.N))} :
                      random' = Draws(random,
                                      ret'.N + NegativeSteps(st.s, st.g))]_vars

\* two steps from the origin, one with delta < 0 and one with delta = 0, both
\* rejected: three draws
C13_Witness ==
    /\ ret.op = "next"
    /\ ret.err = ""
    /\ iterations = 2
    /\ accepted = 0
    /\ gen[1].p = <<0>>

\* C14: for every iteration count N >= 0 and an explicit start position, run
\* executes exactly N steps, returns the triple in effect after the last step
\* and stores it as the checkpoint; for N = 0 the returned and checkpointed
\* triple is the starting state.
C14_RunOfAnyCount ==
    [][(ret'.op = "run" /\ ret'.err # "callback")
       => \A p \in StartPositions, N \in Counts :
             Run(Some(p), N, None, None, 1, TRUE)
             => (/\ ret'.err = ""
                 /\ iterations' = iterations + N
                 /\ ret'.val # None
                 /\ last_run' = ret'.val
                 /\ N = 0 => ret'.val = Some(<<p, get_lnprob(p).val, random>>))]_vars

\* what run leaves when sample is started with exactly these arguments
RunFrom(s, p, N, lnprob0, rstate, thin, store_chain) ==
    Bind(Prologue(s, Frame(p, lnprob0, rstate, thin, store_chain, N)),
         LAMBDA pr : IF pr.err # "" THEN pr ELSE Loop(pr.s, pr.g))

\* the transition is the run that sample makes from these arguments
RunsAs(r) ==
    /\ ret'.err = r.err
    /\ chain' = r.s.chain
    /\ lnprob' = r.s.lnprob
    /\ iterations' = r.s.iterations
    /\ accepted' = r.s.accepted
    /\ random' = r.s.random
    /\ ret'.err = "" => ret'.val = Some(Yielded(r.s, r.g))

\* C15: in run, when the start position is omitted and a checkpoint exists,
\* the position comes from the checkpoint and the log-probability and RNG
\* state come from the checkpoint only where the caller omitted them; when
\* the start position is given the checkpoint is not consulted: an omitted
\* log-probability is computed by the callback and an omitted RNG state
\* leaves the live stream to continue.
C15_StartStateSelection ==
    [][(ret'.op = "run" /\ ret'.err \notin {"ValueError", "UnboundLocalError"})
       => \A N \in 1 .. MaxN, o \in Options :
          /\ (last_run # None /\ Run(None, N, o[1], o[2], o[3], o[4]))
             => RunsAs(RunFrom(Self, last_run[1][1], N,
                               IF o[1] = None THEN Some(last_run[1][2])
                               ELSE o[1],
                               IF o[2] = None THEN Some(last_run[1][3])
                               ELSE o[2],
                               o[3], o[4]))
          /\ \A p \in StartPositions :
                Run(Some(p), N, o[1], o[2], o[3], o[4])
                => RunsAs(RunFrom(Self, p, N,
                                  IF o[1] = None THEN Some(get_lnprob(p).val)
                                  ELSE o[1],
                                  IF o[2] = None THEN Some(random) ELSE o[2],
                                  o[3], o[4]))]_vars

\* two accepted steps that both end at the origin: the second call did not
\* start from the checkpoint's log-probability (it was given its own, or a
\* position)
C15_Witness ==
    /\ ret.op = "run"
    /\ ret.err = ""
    /\ base = None
    /\ twin = None
    /\ iterations = 2
    /\ Len(chain) = 2
    /\ chain[1] = <<0>>
    /\ chain[2] = <<0>>
    /\ accepted = 2

\* C16: a sample sequence driven to completion yields exactly iteration_count
\* triples, one after each step in order, for every thinning value and for
\* store_chain true or false; each yielded triple is the current position,
\* current log-probability and RNG state after that step, and the i-th
\* yielded state is computed from the (i-1)-th.
C16_SequenceYieldsEveryStep ==
    [][/\ (ret'.op \in {"sample", "next"} /\ ret'.err # "callback")
          => (/\ ret'.err \in {"", "StopIteration"}
              /\ ret'.err = ""
                 => (/\ gen' # None
                     /\ gen'[1].i <= gen'[1].N
                     /\ ret'.val = Some(<<gen'[1].p, gen'[1].lnprob, random'>>)))
       /\ (gen # None /\ ret'.op = "next" /\ ret'.err # "callback")
          => (/\ ret'.err = "" <=> gen[1].i < gen[1].N
              /\ ret'.err = ""
                 => (/\ gen'[1].i = gen[1].i + 1
                     /\ gen'[1].p \in {gen[1].p, Candidate}))
       /\ (ret'.op = "sample" /\ ret'.err # "callback")
          => \A p \in StartPositions, N \in Counts, o \in SampleOptions :
                Sample(p, N, o[1], o[2], o[3], o[4])
                => (/\ ret'.err = "" <=> N > 0
                    /\ ret'.err = "" => gen'[1].i = 1)]_vars

\* the uniform variate drawn after the proposal of the suspended generator's
\* next step, in thousandths
UniformMilli == RandMilli(Propose(gen[1].p, random).random)

\* delta of the suspended generator's next step
Delta == CandidateLnProb.val - gen[1].lnprob

\* the step replaced the current position by the candidate
Replaced ==
    /\ gen'[1].p = Candidate
    /\ gen'[1].lnprob = CandidateLnProb.val
    /\ accepted' = accepted + 1

\* the step left the current position alone
Kept ==
    /\ gen'[1].p = gen[1].p
    /\ gen'[1].lnprob = gen[1].lnprob
    /\ accepted' = accepted

\* C17: a step with delta < 0 and uniform draw u accepts if and only if
\* exp(delta) > u; on rejection the current position, current log-probability
\* and accepted are unchanged; accepted increases, by exactly 1, only in a
\* step in which the current position is replaced by the candidate.
C17_DownhillAcceptance ==
    [][(gen # None /\ ret'.op = "next" /\ ret'.err = "")
       => (/\ Delta < 0
              => (IF ExpMilli(Delta) > UniformMilli THEN Replaced ELSE Kept)
           /\ Replaced \/ Kept
           /\ accepted' # accepted => Replaced)]_vars

\* two accepted steps ending away from the origin: the second went downhill
C17_Witness ==
    /\ ret.op = "next"
    /\ ret.err = ""
    /\ iterations = 2
    /\ accepted = 2
    /\ gen[1].p = <<1>>

\* C18: reset leaves the RNG state and the problem definition (dimension,
\* callback, proposal covariance) unchanged, so the draws made after a reset
\* continue the stream from where it stood.
C18_ResetKeepsStream ==
    [][(ret'.op = "reset")
       => (/\ random' = random
           /\ UNCHANGED Problem
           /\ \A p \in StartPositions :
                 Propose(p, random)' = Propose(p, random))]_vars

\* a reset while a sequence that has drawn twice or more is suspended
C18_Witness ==
    /\ ret.op = "reset"
    /\ gen # None
    /\ gen[1].i = 2
    /\ random # 0

\* C19: a failure raised by the log-density callback during any step of run
\* propagates to the caller of run, and the checkpoint then still holds the
\* value stored by the last run that completed (or is still absent): the
\* checkpoint is never set by a run that did not complete.
C19_FailedRunKeepsCheckpoint ==
    [][/\ (ret'.op = "run" /\ ret'.err # "")
          => (last_run' = last_run /\ ret'.val = None)
       /\ (ret'.op = "run")
          => \A p \in StartPositions, N \in 1 .. MaxN :
                (/\ Run(Some(p), N, None, None, 1, TRUE)
                 /\ RunFrom(Self, p, N, None, None, 1, TRUE).err = "callback")
                => (ret'.err = "callback" /\ last_run' = last_run)
       /\ (last_run' # last_run)
          => (ret'.op = "reset" \/ (ret'.op = "run" /\ ret'.err = ""))]_vars

\* the callback failed in a run made after a run that completed
C19_Witness ==
    /\ ret.op = "run"
    /\ ret.err = "callback"
    /\ last_run # None
    /\ iterations >= 2

\* the rows the retained steps wrote, in execution order
RowsWritten == {j \in 1 .. Len(retained) : retained[j][3] > 0}

\* C20: between resets the chain length never decreases, and a chain row
\* (with its log-probability entry) written by a retained step is never
\* overwritten by a later step of the same call or of a later sample or run
\* call, for every mix of thinning values, store_chain flags and abandoned
\* sequences.
C20_AppendOnly ==
    /\ [](\A j \in RowsWritten :
            /\ retained[j][3] <= Len(chain)
            /\ written[retained[j][3]]
            /\ chain[retained[j][3]] = retained[j][1]
            /\ lnprob[retained[j][3]] = retained[j][2]
            /\ \A k \in RowsWritten : j < k => retained[j][3] < retained[k][3])
    /\ [][(ret'.op # "reset")
          => (/\ Len(chain') >= Len(chain)
              /\ Len(lnprob') >= Len(lnprob)
              /\ \A j \in 1 .. Len(chain) :
                    written[j] => (/\ written'[j]
                                   /\ chain'[j] = chain[j]
                                   /\ lnprob'[j] = lnprob[j]))]_vars

\* a run that stored its row after the rows of an abandoned sequence
C20_Witness ==
    /\ ret.op = "run"
    /\ ret.err = ""
    /\ Len(chain) = 3
    /\ Len(retained) = 2
    /\ retained[1][3] = 1
    /\ retained[2][3] = 2
    /\ ~written[3]

====
